---- MODULE Spec2Model ----
(***************************************************************************)
(* git-graph.py: the GitRepo object model and its traversal engine.        *)
(*                                                                         *)
(* The Python call stack is explicit (variable stack): every recursive     *)
(* call of traverse_history / get_commit / get_tree pushes a frame, every  *)
(* return pops one, and an exception unwinds the whole stack (the script   *)
(* has no try/except).  The object store behind `git cat-file -p` is the   *)
(* environment: an object's text is fixed the first time it is fetched     *)
(* (variable store) and every later fetch of that hash yields the same     *)
(* text.  Texts are sequences of lines, a line is a sequence of tokens     *)
(* and whitespace chunks (" "), so that str.split() is a real operation.   *)
(* Hashes are typed by the universe they are drawn from: parent lines name *)
(* commit hashes, tree-typed entries name tree hashes, blob-typed entries  *)
(* name blob hashes, one of which is a tree hash too (blobs are never       *)
(* fetched, so nothing checks an entry's type).  The program treats        *)
(* hashes and entry names as opaque, so the store is enumerated up to      *)
(* renaming: of each universe, the k-th member is mentioned for the first  *)
(* time only after the first k-1 members (variable named).                 *)
(***************************************************************************)
EXTENDS Integers, Sequences, FiniteSets, TLC

\* Size of the object store: parent lines plus tree-entry lines, all objects.
MaxLines == 3
\* Depth of the interpreter's call stack, in frames of this model: above the
\* deepest call chain an acyclic store over these hashes produces.
RecursionLimit == 10

None == "None"
CommitSeq == <<"c1", "c2", "c3">>
TreeSeq == <<"t1", "t2">>
NameSeq == <<"a", "b">>
BranchSeq == <<"main", "dev">>

EmptyMap == [x \in {} |-> x]
Put(m, k, v) == [x \in DOMAIN m \cup {k} |-> IF x = k THEN v ELSE m[x]]
InSeq(x, s) == \E i \in DOMAIN s : s[i] = x
Range(s) == {s[i] : i \in DOMAIN s}
CommitHashes == Range(CommitSeq)
TreeHashes == Range(TreeSeq)
Names == Range(NameSeq)
BranchNames == Range(BranchSeq)
Orderings(S) ==
  {s \in [1..Cardinality(S) -> S] : \A i, j \in DOMAIN s : i # j => s[i] # s[j]}

\* ---------------------------------------------------------------- entities
Branch(name, commit) == [name |-> name, commit |-> commit]
Commit(hash, tree, parents) ==
  [kind |-> "commit", hash |-> hash, tree |-> tree, parents |-> parents]
Tree(hash, name, trees, blobs) ==
  [kind |-> "tree", hash |-> hash, name |-> name, trees |-> trees, blobs |-> blobs]
Blob(hash, name) == [hash |-> hash, name |-> name]

\* ------------------------------------------------- the object store's texts
Missing == [found |-> FALSE, lines |-> <<>>]
Found(lines) == [found |-> TRUE, lines |-> lines]

ParentLists(n) == UNION {[1..k -> CommitHashes] : k \in 0..n}
CommitText(tree, parents) ==
  (IF tree = None THEN <<>> ELSE << <<"tree", " ", tree>> >>)
  \o [i \in 1..Len(parents) |-> <<"parent", " ", parents[i]>>]
  \o << <<"author", " ", "x">>, <<>>, <<"msg">>, <<>> >>
CommitTexts(n) ==
  {CommitText(t, ps) : t \in TreeHashes \cup {None}, ps \in ParentLists(n)}

EntryLines ==
  {<<"040000", " ", "tree", " ", t, " ", "a">> : t \in TreeHashes}
  \cup {<<"100644", " ", "blob", " ", "b1", " ", n>> : n \in Names}
  \cup {<<"100644", " ", "blob", " ", "t2", " ", "a">>}
  \cup {<<"160000", " ", "commit", " ", "c1", " ", "a">>}
  \cup {<<"100644", " ", "blob", " ", "b1">>}
TreeTexts(n) ==
  UNION {{ls \o << <<>> >> : ls \in [1..k -> EntryLines]} : k \in 0..n}

\* Parent lines and tree-entry lines of a text.
Cost(lines) ==
  Cardinality({i \in DOMAIN lines :
                 lines[i] # <<>> /\ lines[i][1] \notin {"tree", "author", "msg"}})

\* Renaming: how many members of each universe have been mentioned, and the
\* same after a sequence of tokens is read; ok says that no member was
\* mentioned before its predecessors.
Rank(seq, x) == CHOOSE i \in DOMAIN seq : seq[i] = x
Mention(n, seq, field, x) ==
  IF Rank(seq, x) > n[field] + 1 THEN [n EXCEPT !.ok = FALSE]
  ELSE IF Rank(seq, x) = n[field] + 1 THEN [n EXCEPT ![field] = @ + 1]
  ELSE n
RECURSIVE Mentions(_, _)
Mentions(n, tokens) ==
  IF tokens = <<>> THEN n
  ELSE LET x == Head(tokens)
       IN Mentions(IF x \in CommitHashes THEN Mention(n, CommitSeq, "commits", x)
                   ELSE IF x \in TreeHashes THEN Mention(n, TreeSeq, "trees", x)
                   ELSE IF x \in Names THEN Mention(n, NameSeq, "names", x)
                   ELSE n,
                   Tail(tokens))
RECURSIVE Flatten(_)
Flatten(lines) == IF lines = <<>> THEN <<>> ELSE Head(lines) \o Flatten(Tail(lines))

Objects(hash, n) ==
  IF hash \in CommitHashes THEN {Missing} \cup {Found(t) : t \in CommitTexts(n)}
  ELSE IF hash \in TreeHashes THEN {Missing} \cup {Found(t) : t \in TreeTexts(n)}
  ELSE {Missing}

VARIABLES
  store,              \* the object store as far as it has been read
  refs,               \* refs/heads: branch name -> tip commit hash
  budget,             \* lines the rest of the store may still hold
  named,              \* members of each universe mentioned so far
  branches,           \* GitRepo.branches
  cache,              \* GitRepo.cache
  branch_to_commit,   \* GitRepo.branch_to_commit
  commit_to_parents,  \* GitRepo.commit_to_parents
  commit_to_tree,     \* GitRepo.commit_to_tree
  tree_to_trees,      \* GitRepo.tree_to_trees
  tree_to_blobs,      \* GitRepo.tree_to_blobs
  blobs,              \* GitRepo.blobs
  visited,            \* the default argument of traverse_history
  stack,              \* the call stack, innermost frame last
  status,             \* "init", "running", "parsed", "rendered", "failed"
  error,              \* the exception that ended the run, or None
  fetches,            \* history: git_cat_file calls of this run, per hash
  walks,              \* history: walk bodies of this run, per commit hash
  returned,           \* history: <<hash, entity>> returned by get_commit/get_tree
  dups,               \* history: add_to_multimap met a pair already present
  steps,              \* history: steps of this run
  run,                \* 1 for the first GitRepo, 2 for the second
  prev                \* what the first run ended with

repo == <<cache, branch_to_commit, commit_to_parents, commit_to_tree,
          tree_to_trees, tree_to_blobs, blobs>>
env == <<store, refs, budget, named>>
hist == <<fetches, walks, returned, dups>>
vars == <<store, refs, budget, named, branches, cache, branch_to_commit,
          commit_to_parents, commit_to_tree, tree_to_trees, tree_to_blobs, blobs,
          visited, stack, status, error, fetches, walks, returned, dups, steps,
          run, prev>>

NoPrev == [valid |-> FALSE]
NoFetches == [h \in CommitHashes \cup TreeHashes \cup {None} |-> 0]
NoWalks == [h \in CommitHashes |-> 0]

RefSets == UNION {[S -> CommitHashes] : S \in SUBSET BranchNames}
Unnamed == [ok |-> TRUE, commits |-> 0, trees |-> 0, names |-> 0]
Tips(r) == SelectSeq([i \in DOMAIN BranchSeq |->
                        IF BranchSeq[i] \in DOMAIN r THEN r[BranchSeq[i]] ELSE None],
                     LAMBDA x : x # None)

Init ==
  /\ store = EmptyMap
  /\ refs \in RefSets
  /\ named = Mentions(Unnamed, Tips(refs))
  /\ named.ok
  /\ budget = MaxLines
  /\ branches = <<>>
  /\ cache = EmptyMap
  /\ branch_to_commit = EmptyMap
  /\ commit_to_parents = EmptyMap
  /\ commit_to_tree = EmptyMap
  /\ tree_to_trees = EmptyMap
  /\ tree_to_blobs = EmptyMap
  /\ blobs = EmptyMap
  /\ visited = {}
  /\ stack = <<>>
  /\ status = "init"
  /\ error = None
  /\ fetches = NoFetches
  /\ walks = NoWalks
  /\ returned = {}
  /\ dups = FALSE
  /\ steps = 0
  /\ run = 1
  /\ prev = NoPrev

\* ------------------------------------------------------------ pure helpers
split(line) == SelectSeq(line, LAMBDA t : t # " ")

RECURSIVE parse_commit_lines(_, _, _)
parse_commit_lines(lines, tree, parents) ==
  IF lines = <<>> THEN [tree |-> tree, parents |-> parents]
  ELSE LET line == Head(lines)
           parts == split(line)
       IN IF line = <<>> THEN parse_commit_lines(Tail(lines), tree, parents)
          ELSE IF Len(parts) < 2 THEN parse_commit_lines(Tail(lines), tree, parents)
          ELSE IF parts[1] = "tree"
            THEN parse_commit_lines(Tail(lines), parts[2], parents)
          ELSE IF parts[1] = "parent"
            THEN parse_commit_lines(Tail(lines), tree, Append(parents, parts[2]))
          ELSE parse_commit_lines(Tail(lines), tree, parents)

\* As parse_commit, with `dict['parents'] = [parts[1]]` for the append.
parse_commit_last_parent(hash, content) ==
  LET d == parse_commit_lines(content, None, <<>>)
  IN Commit(hash, d.tree, IF d.parents = <<>> THEN <<>>
                          ELSE <<d.parents[Len(d.parents)]>>)

\* As parse_commit, with `dict['parents'].insert(0, parts[1])` for the append.
parse_commit_prepend(hash, content) ==
  LET d == parse_commit_lines(content, None, <<>>)
  IN Commit(hash, d.tree, [i \in DOMAIN d.parents |-> d.parents[Len(d.parents) + 1 - i]])

parse_commit(hash, content) ==
  LET d == parse_commit_lines(content, None, <<>>)
  IN Commit(hash, d.tree, d.parents)

\* As add_to_multimap, without `if value not in multimap[key]`.
add_to_multimap_append(multimap, key, value) ==
  LET m == IF key \in DOMAIN multimap THEN multimap ELSE Put(multimap, key, <<>>)
  IN [m EXCEPT ![key] = Append(@, value)]

add_to_multimap(multimap, key, value) ==
  LET m == IF key \in DOMAIN multimap THEN multimap ELSE Put(multimap, key, <<>>)
  IN IF InSeq(value, m[key]) THEN m ELSE [m EXCEPT ![key] = Append(@, value)]

RECURSIVE add_all(_, _, _)
add_all(multimap, key, values) ==
  IF values = <<>> THEN multimap
  ELSE add_all(add_to_multimap(multimap, key, Head(values)), key, Tail(values))

\* What git_cat_file can answer for a hash: the text read before, or any
\* object the rest of the store may hold.
git_cat_file(hash) ==
  IF hash \in DOMAIN store THEN {store[hash]}
  ELSE {o \in Objects(hash, budget) : Mentions(named, Flatten(o.lines)).ok}

\* As InCache, the test `hash not in self.cache` always true.
InCacheNever(hash) == FALSE
\* As Visited, the test `commit_hash in visited` always false.
VisitedNever(commit_hash) == FALSE

InCache(hash) == hash \in DOMAIN cache
Visited(commit_hash) == commit_hash \in visited

\* ------------------------------------------------------------- call stack
Top == stack[Len(stack)]
Below == SubSeq(stack, 1, Len(stack) - 1)
Running(fn, pc) ==
  /\ status = "running"
  /\ stack # <<>>
  /\ Top.fn = fn
  /\ Top.pc = pc

TraverseFrame(commit_hash) ==
  [fn |-> "traverse_history", pc |-> "enter", commit_hash |-> commit_hash,
   parents |-> <<>>, i |-> 1]
GetCommitFrame(hash) ==
  [fn |-> "get_commit", pc |-> "enter", hash |-> hash, tree_hash |-> None]
GetTreeFrame(hash, name) ==
  [fn |-> "get_tree", pc |-> "enter", hash |-> hash, name |-> name,
   lines |-> <<>>, i |-> 1, trees |-> <<>>, blobs |-> <<>>]

\* The caller's frame once the callee has returned `entity` to it.
Resume(frame, entity) ==
  IF frame.fn = "traverse_history"
    THEN [frame EXCEPT !.pc = "loop", !.parents = entity.parents, !.i = 1]
  ELSE IF frame.fn = "get_commit"
    THEN [frame EXCEPT !.pc = "tree", !.tree_hash = entity.hash]
  ELSE IF frame.fn = "generate_graph"
    THEN frame
  ELSE [frame EXCEPT !.pc = "parse",
                     !.trees = Append(@, split(frame.lines[frame.i])[3]),
                     !.i = @ + 1]

\* As Raise, the exception caught around parse_git_repo and the run going on.
Raise_caught(err) ==
  /\ status' = "parsed"
  /\ error' = err
  /\ stack' = <<>>

Raise(err) ==
  /\ status' = "failed"
  /\ error' = err
  /\ stack' = <<>>

\* Replace the top frame by `top` and call `frame`.
Call(top, frame) ==
  IF Len(stack) >= RecursionLimit
    THEN Raise("RecursionError")
    ELSE /\ stack' = Append(Below, top) \o <<frame>>
         /\ UNCHANGED <<status, error>>

\* get_commit / get_tree return `entity` to the frame below.
Return(hash, entity) ==
  /\ stack' = SubSeq(Below, 1, Len(Below) - 1) \o <<Resume(Below[Len(Below)], entity)>>
  /\ returned' = returned \cup {<<hash, entity>>}
  /\ UNCHANGED <<status, error>>

\* ---------------------------------------------------------------- actions
\* parse_git_repo: GitRepo(...).parse_dot_git_dir() up to the branch loop;
\* os.listdir gives the branches in any order.
parse_dot_git_dir ==
  /\ steps' = steps + 1
  /\ status = "init"
  /\ \E order \in Orderings(DOMAIN refs) :
       branches' = [i \in DOMAIN order |-> Branch(order[i], refs[order[i]])]
  /\ stack' = <<[fn |-> "parse_dot_git_dir", pc |-> "loop", i |-> 1]>>
  /\ status' = "running"
  /\ UNCHANGED <<env, repo, visited, error, hist, run, prev>>

\* As parse_dot_git_dir_loop, the branch recorded only when its tip is walked:
\* `if branch.commit not in visited:` around `self.branch_to_commit[...] = ...`.
parse_dot_git_dir_loop_unvisited ==
  /\ steps' = steps + 1
  /\ Running("parse_dot_git_dir", "loop")
  /\ IF Top.i > Len(branches)
       THEN /\ status' = "parsed"
            /\ stack' = <<>>
            /\ UNCHANGED <<branch_to_commit, error>>
       ELSE LET branch == branches[Top.i]
            IN /\ branch_to_commit' =
                    IF Visited(branch.commit) THEN branch_to_commit
                    ELSE Put(branch_to_commit, branch.name, branch.commit)
               /\ Call([Top EXCEPT !.i = @ + 1], TraverseFrame(branch.commit))
  /\ UNCHANGED <<env, branches, cache, commit_to_parents, commit_to_tree,
                 tree_to_trees, tree_to_blobs, blobs, visited, hist, run, prev>>

\* One iteration of `for branch in self.branches`, or the loop's end.
parse_dot_git_dir_loop ==
  /\ steps' = steps + 1
  /\ Running("parse_dot_git_dir", "loop")
  /\ IF Top.i > Len(branches)
       THEN /\ status' = "parsed"
            /\ stack' = <<>>
            /\ UNCHANGED <<branch_to_commit, error>>
       ELSE LET branch == branches[Top.i]
            IN /\ branch_to_commit' = Put(branch_to_commit, branch.name, branch.commit)
               /\ Call([Top EXCEPT !.i = @ + 1], TraverseFrame(branch.commit))
  /\ UNCHANGED <<env, branches, cache, commit_to_parents, commit_to_tree,
                 tree_to_trees, tree_to_blobs, blobs, visited, hist, run, prev>>

\* traverse_history up to the call of get_commit.
traverse_history ==
  /\ steps' = steps + 1
  /\ Running("traverse_history", "enter")
  /\ IF Visited(Top.commit_hash)
       THEN /\ stack' = Below
            /\ UNCHANGED <<visited, walks, status, error>>
       ELSE /\ visited' = visited \cup {Top.commit_hash}
            /\ walks' = [walks EXCEPT ![Top.commit_hash] = @ + 1]
            /\ Call([Top EXCEPT !.pc = "call"], GetCommitFrame(Top.commit_hash))
  /\ UNCHANGED <<env, branches, repo, fetches, returned, dups, run, prev>>

\* As traverse_history_loop, the edge recorded only when the parent is walked:
\* `if parent_hash not in visited:` around the body of the loop.
traverse_history_loop_unvisited ==
  /\ steps' = steps + 1
  /\ Running("traverse_history", "loop")
  /\ IF Top.i > Len(Top.parents)
       THEN /\ stack' = Below
            /\ UNCHANGED <<commit_to_parents, dups, status, error>>
       ELSE LET parent_hash == Top.parents[Top.i]
            IN IF Visited(parent_hash)
                 THEN /\ stack' = Append(Below, [Top EXCEPT !.i = @ + 1])
                      /\ UNCHANGED <<commit_to_parents, dups, status, error>>
                 ELSE /\ commit_to_parents' =
                           add_to_multimap(commit_to_parents, Top.commit_hash, parent_hash)
                      /\ dups' = (dups \/ commit_to_parents' = commit_to_parents)
                      /\ Call([Top EXCEPT !.i = @ + 1], TraverseFrame(parent_hash))
  /\ UNCHANGED <<env, branches, cache, branch_to_commit, commit_to_tree,
                 tree_to_trees, tree_to_blobs, blobs, visited, fetches, walks,
                 returned, run, prev>>

\* One iteration of `for parent_hash in commit.parents`, or the loop's end.
traverse_history_loop ==
  /\ steps' = steps + 1
  /\ Running("traverse_history", "loop")
  /\ IF Top.i > Len(Top.parents)
       THEN /\ stack' = Below
            /\ UNCHANGED <<commit_to_parents, dups, status, error>>
       ELSE LET parent_hash == Top.parents[Top.i]
            IN /\ commit_to_parents' =
                    add_to_multimap(commit_to_parents, Top.commit_hash, parent_hash)
               /\ dups' = (dups \/ commit_to_parents' = commit_to_parents)
               /\ Call([Top EXCEPT !.i = @ + 1], TraverseFrame(parent_hash))
  /\ UNCHANGED <<env, branches, cache, branch_to_commit, commit_to_tree,
                 tree_to_trees, tree_to_blobs, blobs, visited, fetches, walks,
                 returned, run, prev>>

\* As get_commit, without `tree = self.get_tree(commit.tree)` and the
\* commit_to_tree entry: the commit is returned as soon as it is parsed.
get_commit_lazy ==
  /\ steps' = steps + 1
  /\ Running("get_commit", "enter")
  /\ IF InCache(Top.hash)
       THEN /\ Return(Top.hash, cache[Top.hash])
            /\ UNCHANGED <<env, cache, fetches>>
       ELSE \E content \in git_cat_file(Top.hash) :
              /\ store' = Put(store, Top.hash, content)
              /\ budget' = IF Top.hash \in DOMAIN store THEN budget
                           ELSE budget - Cost(content.lines)
              /\ fetches' = [fetches EXCEPT ![Top.hash] = @ + 1]
              /\ named' = Mentions(named, Flatten(content.lines))
              /\ UNCHANGED refs
              /\ IF ~content.found
                   THEN Raise("ObjectNotFound") /\ UNCHANGED <<cache, returned>>
                   ELSE LET commit == parse_commit(Top.hash, content.lines)
                        IN /\ cache' = Put(cache, Top.hash, commit)
                           /\ Return(Top.hash, commit)
  /\ UNCHANGED <<branches, branch_to_commit, commit_to_parents, commit_to_tree,
                 tree_to_trees, tree_to_blobs, blobs, visited, walks, dups, run, prev>>

\* get_commit up to the call of get_tree.
get_commit ==
  /\ steps' = steps + 1
  /\ Running("get_commit", "enter")
  /\ IF InCache(Top.hash)
       THEN /\ Return(Top.hash, cache[Top.hash])
            /\ UNCHANGED <<env, cache, fetches>>
       ELSE \E content \in git_cat_file(Top.hash) :
              /\ store' = Put(store, Top.hash, content)
              /\ budget' = IF Top.hash \in DOMAIN store THEN budget
                           ELSE budget - Cost(content.lines)
              /\ fetches' = [fetches EXCEPT ![Top.hash] = @ + 1]
              /\ named' = Mentions(named, Flatten(content.lines))
              /\ UNCHANGED <<refs, returned>>
              /\ IF ~content.found
                   THEN Raise("ObjectNotFound") /\ UNCHANGED cache
                   ELSE LET commit == parse_commit(Top.hash, content.lines)
                        IN /\ cache' = Put(cache, Top.hash, commit)
                           /\ Call([Top EXCEPT !.pc = "tree"],
                                   GetTreeFrame(commit.tree, "/"))
  /\ UNCHANGED <<branches, branch_to_commit, commit_to_parents, commit_to_tree,
                 tree_to_trees, tree_to_blobs, blobs, visited, walks, dups, run, prev>>

\* get_commit after get_tree has returned.
get_commit_tree ==
  /\ steps' = steps + 1
  /\ Running("get_commit", "tree")
  /\ commit_to_tree' = Put(commit_to_tree, Top.hash, Top.tree_hash)
  /\ Return(Top.hash, cache[Top.hash])
  /\ UNCHANGED <<env, branches, cache, branch_to_commit, commit_to_parents,
                 tree_to_trees, tree_to_blobs, blobs, visited, fetches, walks,
                 dups, run, prev>>

\* As get_tree, the tree put into the cache before it is parsed, the way
\* get_commit caches the commit before it resolves the tree.
get_tree_cached_first ==
  /\ steps' = steps + 1
  /\ Running("get_tree", "enter")
  /\ IF InCache(Top.hash)
       THEN /\ Return(Top.hash, cache[Top.hash])
            /\ UNCHANGED <<env, fetches, cache>>
       ELSE \E content \in git_cat_file(Top.hash) :
              /\ store' = Put(store, Top.hash, content)
              /\ budget' = IF Top.hash \in DOMAIN store THEN budget
                           ELSE budget - Cost(content.lines)
              /\ fetches' = [fetches EXCEPT ![Top.hash] = @ + 1]
              /\ named' = Mentions(named, Flatten(content.lines))
              /\ UNCHANGED <<refs, returned>>
              /\ IF ~content.found
                   THEN Raise("ObjectNotFound") /\ UNCHANGED cache
                   ELSE /\ stack' = Append(Below, [Top EXCEPT !.pc = "parse",
                                                              !.lines = content.lines])
                        /\ cache' = Put(cache, Top.hash, Tree(Top.hash, Top.name, <<>>, <<>>))
                        /\ UNCHANGED <<status, error>>
  /\ UNCHANGED <<branches, branch_to_commit, commit_to_parents, commit_to_tree,
                 tree_to_trees, tree_to_blobs, blobs, visited, walks, dups, run, prev>>

\* get_tree up to the call of parse_tree.
get_tree ==
  /\ steps' = steps + 1
  /\ Running("get_tree", "enter")
  /\ IF InCache(Top.hash)
       THEN /\ Return(Top.hash, cache[Top.hash])
            /\ UNCHANGED <<env, fetches>>
       ELSE \E content \in git_cat_file(Top.hash) :
              /\ store' = Put(store, Top.hash, content)
              /\ budget' = IF Top.hash \in DOMAIN store THEN budget
                           ELSE budget - Cost(content.lines)
              /\ fetches' = [fetches EXCEPT ![Top.hash] = @ + 1]
              /\ named' = Mentions(named, Flatten(content.lines))
              /\ UNCHANGED <<refs, returned>>
              /\ IF ~content.found
                   THEN Raise("ObjectNotFound")
                   ELSE /\ stack' = Append(Below, [Top EXCEPT !.pc = "parse",
                                                              !.lines = content.lines])
                        /\ UNCHANGED <<status, error>>
  /\ UNCHANGED <<branches, repo, visited, walks, dups, run, prev>>

\* As parse_tree, without `self.blobs[child_hash] = Blob(...)`.
parse_tree_no_blob_table ==
  /\ steps' = steps + 1
  /\ Running("get_tree", "parse")
  /\ Top.i <= Len(Top.lines)
  /\ LET line == Top.lines[Top.i]
         parts == split(line)
     IN IF line = <<>>
          THEN /\ stack' = Append(Below, [Top EXCEPT !.i = @ + 1])
               /\ UNCHANGED <<blobs, status, error>>
        ELSE IF Len(parts) # 4
          THEN Raise("ValueError") /\ UNCHANGED blobs
        ELSE IF parts[2] = "tree"
          THEN /\ Call([Top EXCEPT !.pc = "call"], GetTreeFrame(parts[3], parts[4]))
               /\ UNCHANGED blobs
        ELSE IF parts[2] = "blob"
          THEN /\ stack' = Append(Below, [Top EXCEPT !.i = @ + 1,
                                                     !.blobs = Append(@, parts[3])])
               /\ UNCHANGED blobs
               /\ UNCHANGED <<status, error>>
        ELSE /\ stack' = Append(Below, [Top EXCEPT !.i = @ + 1])
             /\ UNCHANGED <<blobs, status, error>>
  /\ UNCHANGED <<env, branches, cache, branch_to_commit, commit_to_parents,
                 commit_to_tree, tree_to_trees, tree_to_blobs, visited, hist,
                 run, prev>>

\* One iteration of `for line in lines` of parse_tree.
parse_tree ==
  /\ steps' = steps + 1
  /\ Running("get_tree", "parse")
  /\ Top.i <= Len(Top.lines)
  /\ LET line == Top.lines[Top.i]
         parts == split(line)
     IN IF line = <<>>
          THEN /\ stack' = Append(Below, [Top EXCEPT !.i = @ + 1])
               /\ UNCHANGED <<blobs, status, error>>
        ELSE IF Len(parts) # 4
          THEN Raise("ValueError") /\ UNCHANGED blobs
        ELSE IF parts[2] = "tree"
          THEN /\ Call([Top EXCEPT !.pc = "call"], GetTreeFrame(parts[3], parts[4]))
               /\ UNCHANGED blobs
        ELSE IF parts[2] = "blob"
          THEN /\ stack' = Append(Below, [Top EXCEPT !.i = @ + 1,
                                                     !.blobs = Append(@, parts[3])])
               /\ blobs' = Put(blobs, parts[3], Blob(parts[3], parts[4]))
               /\ UNCHANGED <<status, error>>
        ELSE /\ stack' = Append(Below, [Top EXCEPT !.i = @ + 1])
             /\ UNCHANGED <<blobs, status, error>>
  /\ UNCHANGED <<env, branches, cache, branch_to_commit, commit_to_parents,
                 commit_to_tree, tree_to_trees, tree_to_blobs, visited, hist,
                 run, prev>>

\* get_tree after parse_tree has returned the Tree.
get_tree_finish ==
  /\ steps' = steps + 1
  /\ Running("get_tree", "parse")
  /\ Top.i > Len(Top.lines)
  /\ LET tree == Tree(Top.hash, Top.name, Top.trees, Top.blobs)
         had(m) == IF Top.hash \in DOMAIN m THEN Len(m[Top.hash]) ELSE 0
     IN /\ tree_to_blobs' = add_all(tree_to_blobs, Top.hash, tree.blobs)
        /\ tree_to_trees' = add_all(tree_to_trees, Top.hash, tree.trees)
        /\ cache' = Put(cache, Top.hash, tree)
        /\ dups' = \/ dups
                   \/ had(tree_to_blobs') < had(tree_to_blobs) + Len(tree.blobs)
                   \/ had(tree_to_trees') < had(tree_to_trees) + Len(tree.trees)
        /\ Return(Top.hash, cache'[Top.hash])
  /\ UNCHANGED <<env, branches, branch_to_commit, commit_to_parents, commit_to_tree,
                 blobs, visited, fetches, walks, run, prev>>

\* The hashes GraphGenerator.generate_graph calls get_tree for, and the
\* hashes it looks up in the blob table.
TreeLookups ==
  DOMAIN tree_to_blobs \cup DOMAIN tree_to_trees
  \cup UNION {Range(tree_to_trees[t]) : t \in DOMAIN tree_to_trees}
  \cup Range(commit_to_tree)
BlobLookups == UNION {Range(tree_to_blobs[t]) : t \in DOMAIN tree_to_blobs}
RenderFrame == [fn |-> "generate_graph", pc |-> "lookup"]
\* parse_git_repo has returned, or a get_tree call of the rendering has.
Rendering ==
  IF status = "parsed" THEN TRUE ELSE Running("generate_graph", "lookup")

\* main: generate_graph(git_repo) once parse_git_repo has returned.  The
\* lookups that hit the cache and the blob table change nothing; a get_tree
\* call for a hash that is not in the cache goes through get_tree and comes
\* back here, a blob hash without an entry raises KeyError.
generate_graph ==
  /\ steps' = steps + 1
  /\ Rendering
  /\ LET misses == {h \in TreeLookups : ~InCache(h)}
         absent == IF BlobLookups \subseteq DOMAIN blobs THEN {} ELSE {"KeyError"}
     IN IF misses \cup absent = {}
          THEN /\ status' = "rendered"
               /\ stack' = <<>>
               /\ UNCHANGED error
          ELSE \E x \in misses \cup absent :
                 IF x = "KeyError"
                   THEN Raise("KeyError")
                   ELSE /\ stack' = <<RenderFrame, GetTreeFrame(x, "/")>>
                        /\ status' = "running"
                        /\ UNCHANGED error
  /\ UNCHANGED <<env, branches, repo, visited, hist, run, prev>>

Next ==
  \/ parse_dot_git_dir
  \/ parse_dot_git_dir_loop
  \/ traverse_history
  \/ traverse_history_loop
  \/ get_commit
  \/ get_commit_tree
  \/ get_tree
  \/ parse_tree
  \/ get_tree_finish
  \/ generate_graph

Spec == Init /\ [][Next]_vars

\* -------------------------------------------------------- more than one run
Snapshot ==
  [valid |-> TRUE, status |-> status, branches |-> branches,
   cache |-> cache, commit_to_parents |-> commit_to_parents,
   commit_to_tree |-> commit_to_tree, tree_to_trees |-> tree_to_trees,
   tree_to_blobs |-> tree_to_blobs]

\* GitRepo.__init__: the fields of a new instance.
GitRepo ==
  /\ branches' = <<>>
  /\ cache' = EmptyMap
  /\ branch_to_commit' = EmptyMap
  /\ commit_to_parents' = EmptyMap
  /\ commit_to_tree' = EmptyMap
  /\ tree_to_trees' = EmptyMap
  /\ tree_to_blobs' = EmptyMap
  /\ blobs' = EmptyMap

\* parse_git_repo is called a second time in the same process: a new GitRepo,
\* while the default argument of traverse_history is the object it was.
parse_git_repo_again ==
  /\ steps' = 0
  /\ run = 1
  /\ status \in {"parsed", "rendered"}
  /\ prev' = Snapshot
  /\ run' = 2
  /\ GitRepo
  /\ status' = "init"
  /\ stack' = <<>>
  /\ fetches' = NoFetches
  /\ walks' = NoWalks
  /\ returned' = {}
  /\ dups' = FALSE
  /\ UNCHANGED <<env, visited, error>>

NextRuns == Next \/ parse_git_repo_again
SpecRuns == Init /\ [][NextRuns]_vars

\* The script is run again in a new process over the same repository, and
\* os.listdir gives the branches in another order.  Of every two orders it is
\* the one sorted by name that is run first.
Sorted(bs) == \A i, j \in DOMAIN bs :
                i < j => Rank(BranchSeq, bs[i].name) < Rank(BranchSeq, bs[j].name)
main_again ==
  /\ steps' = 0
  /\ run = 1
  /\ status = "rendered"
  /\ Sorted(branches)
  /\ prev' = Snapshot
  /\ run' = 2
  /\ cache' = EmptyMap
  /\ branch_to_commit' = EmptyMap
  /\ commit_to_parents' = EmptyMap
  /\ commit_to_tree' = EmptyMap
  /\ tree_to_trees' = EmptyMap
  /\ tree_to_blobs' = EmptyMap
  /\ blobs' = EmptyMap
  /\ visited' = {}
  /\ \E order \in Orderings(DOMAIN refs) :
       /\ branches' = [i \in DOMAIN order |-> Branch(order[i], refs[order[i]])]
       /\ branches' # branches
  /\ stack' = <<[fn |-> "parse_dot_git_dir", pc |-> "loop", i |-> 1]>>
  /\ status' = "running"
  /\ error' = None
  /\ fetches' = NoFetches
  /\ walks' = NoWalks
  /\ returned' = {}
  /\ dups' = FALSE
  /\ UNCHANGED env

NextOrders == Next \/ main_again
InitOrders == Init /\ Cardinality(DOMAIN refs) > 1
SpecOrders == InitOrders /\ [][NextOrders]_vars

\* ------------------------------------------------- what the store holds
\* Read off the texts directly, token by token.
Text(h) == IF h \in DOMAIN store THEN store[h].lines ELSE <<>>
LinesOf(h, key, at) ==
  SelectSeq(Text(h), LAMBDA l : Len(l) > at /\ l[at] = key)
ParentsOf(c) == {l[3] : l \in Range(LinesOf(c, "parent", 1))}
TreeOf(c) == IF LinesOf(c, "tree", 1) = <<>> THEN None ELSE LinesOf(c, "tree", 1)[1][3]
SubtreesOf(t) == {l[5] : l \in Range(LinesOf(t, "tree", 3))}
BlobsOf(t) == {l[5] : l \in Range(LinesOf(t, "blob", 3))}

RECURSIVE Closure(_, _, _)
Closure(S, Step(_), n) ==
  IF n = 0 THEN S ELSE Closure(S \cup UNION {Step(x) : x \in S}, Step, n - 1)
\* Commits reachable from the branch tips, trees below a tree.
Reach == Closure(Range(refs), ParentsOf, Len(CommitSeq))
Ancestors(c) == Closure(ParentsOf(c), ParentsOf, Len(CommitSeq))
Below_(t) == Closure(SubtreesOf(t), SubtreesOf, Len(TreeSeq))
TreeAcyclic == \A t \in TreeHashes : t \notin Below_(t)
OnCycle(c) == c \in Reach /\ c \in Ancestors(c)

Edges(multimap) ==
  UNION {{<<k, multimap[k][i]>> : i \in DOMAIN multimap[k]} : k \in DOMAIN multimap}
NoRepeat(s) == \A i, j \in DOMAIN s : i # j => s[i] # s[j]
Succeeded == status \in {"parsed", "rendered"}

\* ------------------------------------------------------------------ claims
\* get_commit or get_tree is about to run for a hash that is in the cache.
CacheHit ==
  /\ status = "running"
  /\ stack # <<>>
  /\ Top.fn \in {"get_commit", "get_tree"}
  /\ Top.pc = "enter"
  /\ Top.hash \in DOMAIN cache
\* No hash fetched twice, no hash resolved to two entities.
C1_FetchedOnce ==
  \/ /\ \A h \in DOMAIN fetches : fetches[h] <= 1
     /\ \A r1, r2 \in returned : r1[1] = r2[1] => r1[2] = r2[2]
  \/ ~TreeAcyclic
\* C1: over a store whose tree containment is acyclic, git_cat_file is
\* called at most once per hash in a run, get_commit and get_tree return the
\* same entity for the same hash every time, and a call for a hash that is
\* in the cache changes neither the cache, nor an index, nor the blob table.
C1_IdempotentResolution ==
  /\ []C1_FetchedOnce
  /\ [][CacheHit => UNCHANGED repo]_vars
\* A subtree that is in the cache is asked for again, under another name,
\* after two objects were fetched.
C1_Witness ==
  /\ TreeAcyclic
  /\ CacheHit
  /\ Top.fn = "get_tree"
  /\ cache[Top.hash].name # Top.name
  /\ Cardinality(DOMAIN cache) > 1

\* C2: when parse_dot_git_dir has completed, commit_to_parents holds exactly
\* the (commit, parent) pairs of the commits reachable from the branch tips,
\* and commit_to_tree maps exactly those commits, each to its tree hash.
C2_IndicesExact ==
  Succeeded =>
    LET reach == Reach
    IN /\ Edges(commit_to_parents) =
            {<<c, p>> \in reach \X CommitHashes : p \in ParentsOf(c)}
       /\ DOMAIN commit_to_tree = reach
       /\ \A c \in reach : commit_to_tree[c] = TreeOf(c)
\* A completed run over a merge commit one of whose parents was walked
\* before the edge into it was recorded.
C2_Witness ==
  /\ Succeeded
  /\ \E c \in Reach : Cardinality(ParentsOf(c)) = 2
  /\ \E p \in Reach : Cardinality({c \in Reach : p \in ParentsOf(c)}) = 2

\* C3: the walk of a commit (traverse_history past the visited check) runs at
\* most once per commit hash and run, and only for commits reachable from the
\* branch tips: the walks of a run are at most the reachable commits.
C3_WalkedOnce ==
  /\ \A c \in CommitHashes : walks[c] <= 1
  /\ {c \in CommitHashes : walks[c] = 1} \subseteq Reach
\* traverse_history is entered for a commit that was walked before, in a
\* history of three commits.
C3_Witness ==
  /\ Running("traverse_history", "enter")
  /\ Visited(Top.commit_hash)
  /\ walks[Top.commit_hash] = 1
  /\ \A c \in CommitHashes : walks[c] = 1

\* add_to_multimap with any pair the multimap holds gives the multimap back.
Absorbs(multimap) ==
  \A k \in DOMAIN multimap : \A i \in DOMAIN multimap[k] :
    add_to_multimap(multimap, k, multimap[k][i]) = multimap
\* C4: no list of commit_to_parents, tree_to_trees or tree_to_blobs ever holds
\* a value twice, and add_to_multimap with a pair that is present leaves the
\* multimap as it is.
C4_DeduplicatedEdges ==
  /\ \A k \in DOMAIN commit_to_parents : NoRepeat(commit_to_parents[k])
  /\ \A k \in DOMAIN tree_to_trees : NoRepeat(tree_to_trees[k])
  /\ \A k \in DOMAIN tree_to_blobs : NoRepeat(tree_to_blobs[k])
  /\ Absorbs(commit_to_parents) /\ Absorbs(tree_to_trees) /\ Absorbs(tree_to_blobs)
\* add_to_multimap was called with a pair that was present, and the run
\* completed.
C4_Witness == dups /\ Succeeded

\* The run is over; the run has a next step; the size of what was read.
Ended == status \in {"rendered", "failed"}
CanStep ==
  \/ status \in {"init", "parsed"}
  \/ /\ status = "running"
     /\ stack # <<>>
     /\ <<Top.fn, Top.pc>> \in {<<"parse_dot_git_dir", "loop">>,
                                <<"traverse_history", "enter">>,
                                <<"traverse_history", "loop">>,
                                <<"get_commit", "enter">>, <<"get_commit", "tree">>,
                                <<"get_tree", "enter">>, <<"get_tree", "parse">>,
                                <<"generate_graph", "lookup">>}
RECURSIVE Sum(_, _)
Sum(f, S) == IF S = {} THEN 0
             ELSE LET x == CHOOSE y \in S : TRUE IN f[x] + Sum(f, S \ {x})
StoreSize == Sum([h \in DOMAIN store |-> 1 + Len(store[h].lines)], DOMAIN store)
StepBound == 3 + 2 * Cardinality(DOMAIN refs) + 4 * StoreSize
\* C5: a cycle of parent links does not keep the traversal from ending: the
\* run can always take its next step until it has ended, and while tree
\* containment is acyclic the call stack never overflows and the steps taken
\* stay within a bound linear in the branches and the objects and lines read;
\* a run that completes has fetched every commit on a cycle once and has
\* recorded every parent edge of those commits.
C5_CycleTerminates ==
  /\ Ended \/ CanStep
  /\ \/ error # "RecursionError" /\ steps <= StepBound
     \/ ~TreeAcyclic
  /\ Succeeded =>
        \A c \in CommitHashes : OnCycle(c) =>
          /\ fetches[c] = 1
          /\ \A p \in ParentsOf(c) : <<c, p>> \in Edges(commit_to_parents)
\* A completed run over a cycle of two or three commits.
C5_Witness ==
  /\ Succeeded
  /\ \E c \in CommitHashes : OnCycle(c) /\ c \notin ParentsOf(c)

\* Every line of a tree text is empty or splits into four tokens.
WellFormed(lines) == \A i \in DOMAIN lines : lines[i] = <<>> \/ Len(split(lines[i])) = 4
\* C6: a fetch that fails or a tree line that does not split into four
\* tokens ends the run as failed, and generate_graph runs only after a
\* traversal without failure: while the run has not failed no fetched object
\* is missing and no parsed tree has such a line, and a failed run never
\* renders.
C6_FailFast ==
  /\ status # "failed" =>
        /\ error = None
        /\ \A h \in DOMAIN store : store[h].found
        /\ \A h \in DOMAIN cache : cache[h].kind = "tree" => WellFormed(Text(h))
  /\ status = "rendered" =>
        \A h \in DOMAIN store : h \in TreeHashes => WellFormed(Text(h))
\* A tree line of three tokens ended a run that had resolved objects before.
C6_Witness ==
  /\ status = "failed"
  /\ error = "ValueError"
  /\ cache # EmptyMap
  /\ \E h \in DOMAIN store : ~WellFormed(Text(h))

\* C7: the second run of parse_dot_git_dir in a process, on a new GitRepo over
\* the same store and branches, starts with an empty visited set and ends
\* with the commit_to_parents and commit_to_tree of the first run.
C7_VisitedPerRun ==
  run = 2 =>
    /\ status = "init" => visited = {}
    /\ Succeeded => /\ commit_to_parents = prev.commit_to_parents
                    /\ commit_to_tree = prev.commit_to_tree

\* A step keeps every entry of the table as it is.
Kept(table) ==
  \A h \in DOMAIN table : h \in DOMAIN table' /\ table'[h] = table[h]
\* C8: an entry of the object cache or of the blob table, once made, is
\* neither replaced, nor changed, nor deleted by a later step of the run.
C8_Immutable == [][Kept(cache) /\ Kept(blobs)]_vars
\* C8, the object cache alone: an entry of the cache, once made, is kept as
\* it is by every later step of the run.
C8_CacheImmutable == [][Kept(cache)]_vars

\* C9: the subtree hashes and the blob hashes of a Tree share no hash, and
\* neither do tree_to_trees[t] and tree_to_blobs[t].
C9_Disjoint ==
  /\ \A h \in DOMAIN cache : cache[h].kind = "tree" =>
        Range(cache[h].trees) \cap Range(cache[h].blobs) = {}
  /\ \A t \in DOMAIN tree_to_trees \cap DOMAIN tree_to_blobs :
        Range(tree_to_trees[t]) \cap Range(tree_to_blobs[t]) = {}

\* C10: of two runs of the script over the same store that walk the same
\* branches in different orders, when one completes so does the other, with
\* the same hashes in the cache and the same edges in commit_to_parents,
\* commit_to_tree, tree_to_trees and tree_to_blobs.
C10_OrderIndependent ==
  (run = 2 /\ Ended) =>
    /\ status = "rendered"
    /\ DOMAIN cache = DOMAIN prev.cache
    /\ Edges(commit_to_parents) = Edges(prev.commit_to_parents)
    /\ commit_to_tree = prev.commit_to_tree
    /\ Edges(tree_to_trees) = Edges(prev.tree_to_trees)
    /\ Edges(tree_to_blobs) = Edges(prev.tree_to_blobs)
\* The second run has completed; the two orders walked different commits
\* first, one of them an ancestor of the other, and the cache differs in an
\* entity across the runs' ends.
C10_Witness ==
  /\ run = 2
  /\ status = "rendered"
  /\ branches[1].commit # prev.branches[1].commit
  /\ branches[1].commit \in ParentsOf(branches[2].commit)
  /\ cache # prev.cache

\* traverse_history is about to run for a branch tip that was walked before.
VisitedTip ==
  /\ Running("traverse_history", "enter")
  /\ Len(stack) = 2
  /\ Visited(Top.commit_hash)
\* C11: a completed run has branch_to_commit[name] = tip for every branch of
\* refs/heads and no other entry, and the call of traverse_history for a tip
\* that was walked before returns at once: it fetches nothing, walks nothing
\* and changes neither the cache nor an index.
C11_BranchEntries ==
  /\ [](Succeeded => branch_to_commit = refs)
  /\ [][VisitedTip => /\ stack' = Below
                       /\ UNCHANGED <<repo, visited, fetches, walks>>]_vars
\* A completed run over two branches, the tip of one an ancestor of the tip
\* of the other or the same commit, every object fetched once.
C11_Witness ==
  /\ Succeeded
  /\ \E b1, b2 \in DOMAIN refs :
       /\ b1 # b2
       /\ refs[b2] \in Ancestors(refs[b1]) \cup {refs[b1]}
       /\ branch_to_commit[b1] = refs[b1]
       /\ branch_to_commit[b2] = refs[b2]
  /\ \A h \in DOMAIN store : fetches[h] = 1

\* This step is a git_cat_file call that finds no object for the hash.
FetchMissing ==
  /\ status = "running"
  /\ stack # <<>>
  /\ Top.fn \in {"get_commit", "get_tree"}
  /\ Top.pc = "enter"
  /\ ~InCache(Top.hash)
  /\ Top.hash \in DOMAIN store'
  /\ ~store'[Top.hash].found
\* The trees being parsed: the get_tree frames of the call stack.
InProgress == {stack[i].hash : i \in {j \in DOMAIN stack : stack[j].fn = "get_tree"}}
\* C12: a git_cat_file call that finds no object ends the run with the
\* object-not-found error; the cache then has no entry for that hash and none
\* for a tree that was being parsed, and nothing is added to it afterwards,
\* since a failed run takes no further step.
C12_NoNegativeCaching ==
  /\ [][FetchMissing => /\ status' = "failed"
                        /\ error' = "ObjectNotFound"
                        /\ cache' = cache
                        /\ Top.hash \notin DOMAIN cache'
                        /\ InProgress \cap DOMAIN cache' = {}]_vars
  /\ [][status # "failed"]_vars
\* A run has failed on a missing subtree of a tree that was fetched and was
\* being parsed; neither the tree nor the missing hash is in the cache.
C12_Witness ==
  /\ status = "failed"
  /\ error = "ObjectNotFound"
  /\ \E t \in TreeHashes :
       /\ t \in DOMAIN store
       /\ store[t].found
       /\ t \notin DOMAIN cache
       /\ \E u \in SubtreesOf(t) : u \in DOMAIN store /\ ~store[u].found
  /\ \A h \in DOMAIN store : ~store[h].found => h \notin DOMAIN cache

\* ------------------------------------------------ records with ragged lines
\* Lines of one commit record and one tree record read by a run over a single
\* branch: a record is any sequence of at most MaxRecord of these lines, a
\* line of whitespace alone among them.
MaxRecord == 2
CommitLines ==
  {<<"tree", " ", "t1">>, <<"tree", " ", "t2">>, <<"parent", " ", "c1">>,
   <<"parent">>, <<" ">>, <<>>}
TreeLines ==
  {<<"100644", " ", "blob", " ", "b1", " ", "a">>,
   <<"040000", " ", "tree", " ", "t2", " ", "a">>, <<" ">>, <<>>}
Records(lines) == UNION {[1..k -> lines] : k \in 0..MaxRecord}
AllNamed == [ok |-> TRUE, commits |-> Len(CommitSeq), trees |-> Len(TreeSeq),
             names |-> Len(NameSeq)]
InitParse ==
  /\ \E ct \in Records(CommitLines), tt \in Records(TreeLines) :
       store = [h \in {"c1", "t1"} |-> IF h = "c1" THEN Found(ct) ELSE Found(tt)]
  /\ refs = [b \in {"main"} |-> "c1"]
  /\ named = AllNamed
  /\ budget = 0
  /\ branches = <<>>
  /\ cache = EmptyMap
  /\ branch_to_commit = EmptyMap
  /\ commit_to_parents = EmptyMap
  /\ commit_to_tree = EmptyMap
  /\ tree_to_trees = EmptyMap
  /\ tree_to_blobs = EmptyMap
  /\ blobs = EmptyMap
  /\ visited = {}
  /\ stack = <<>>
  /\ status = "init"
  /\ error = None
  /\ fetches = NoFetches
  /\ walks = NoWalks
  /\ returned = {}
  /\ dups = FALSE
  /\ steps = 0
  /\ run = 1
  /\ prev = NoPrev
SpecParse == InitParse /\ [][Next]_vars

\* A line that is not empty and splits into no token; a record without them.
Blank(line) == line # <<>> /\ split(line) = <<>>
Strip(lines) == SelectSeq(lines, LAMBDA l : ~Blank(l))
HasBlank(h) == \E i \in DOMAIN Text(h) : Blank(Text(h)[i])
\* The child hashes of the lines of a tree record that name the given type.
Children(lines, type) ==
  LET ls == SelectSeq(lines, LAMBDA l : Len(split(l)) = 4 /\ split(l)[2] = type)
  IN [i \in DOMAIN ls |-> split(ls[i])[3]]
\* C13, for parse_commit: the Commit in the cache is the one parse_commit
\* gives for the record without its whitespace-only lines.
C13_CommitTolerant ==
  \A h \in DOMAIN cache : cache[h].kind = "commit" =>
    cache[h] = parse_commit(h, Strip(Text(h)))
\* A commit record with a whitespace-only line and a tree line was parsed
\* and the run completed.
C13_CommitWitness ==
  /\ Succeeded
  /\ \E h \in DOMAIN cache : cache[h].kind = "commit" /\ HasBlank(h)
\* C13: a commit record or a tree record with whitespace-only lines parses
\* without error to the entity of the record with those lines removed: the
\* cached Commit and Tree are those of the stripped records, and a run ends
\* with ValueError only over a tree record that is malformed without them.
C13_WhitespaceTolerant ==
  /\ C13_CommitTolerant
  /\ \A h \in DOMAIN cache : cache[h].kind = "tree" =>
        /\ cache[h].trees = Children(Strip(Text(h)), "tree")
        /\ cache[h].blobs = Children(Strip(Text(h)), "blob")
  /\ error = "ValueError" =>
        \E t \in DOMAIN store \cap TreeHashes : ~WellFormed(Strip(Text(t)))

\* Every object the run asked for exists.
AllFound == \A h \in DOMAIN store : store[h].found
\* C14, what the cache does give: a run that has fetched a tree lying on a
\* cycle of tree lines never completes, and every tree in the cache is
\* acyclic.
C14_CycleNeverCompletes ==
  /\ \A t \in DOMAIN cache \cap TreeHashes : t \notin Below_(t)
  /\ Succeeded => \A t \in DOMAIN store \cap TreeHashes : t \notin Below_(t)
\* A run over a tree cycle, every object found, has ended in RecursionError
\* after fetching a tree more than once.
C14_Witness ==
  /\ status = "failed"
  /\ error = "RecursionError"
  /\ AllFound
  /\ \E t \in TreeHashes : fetches[t] > 1 /\ t \in Below_(t)
\* C14: over a store in which every object asked for exists, a tree that
\* lists itself as a subtree, directly or through other trees, included, the
\* run does not overflow the call stack and its steps stay within the bound
\* linear in the branches and the objects and lines read.
C14_TreeCycleTerminates ==
  AllFound => error # "RecursionError" /\ steps <= StepBound

\* Runs over the stores of Spec and over the records of SpecParse.
InitCommits == Init \/ InitParse
SpecCommits == InitCommits /\ [][Next]_vars

\* The values (second tokens) of the lines of a record that have the given
\* key and at least two tokens, in record order.
Values(lines, key) ==
  LET ls == SelectSeq(lines, LAMBDA l : Len(split(l)) >= 2 /\ split(l)[1] = key)
  IN [i \in DOMAIN ls |-> split(ls[i])[2]]
\* A sequence without the later occurrences of its values.
RECURSIVE Distinct(_)
Distinct(seq) ==
  IF seq = <<>> THEN <<>>
  ELSE LET front == Distinct(SubSeq(seq, 1, Len(seq) - 1))
           last == seq[Len(seq)]
       IN IF InSeq(last, front) THEN front ELSE Append(front, last)
\* C15: the Commit parse_commit makes of a record has the hash, the value of
\* the record's tree line (of the last one if there are several, None if
\* there is none) and the values of its parent lines in record order, and no
\* other field; lines with another key or with fewer than two tokens count
\* for nothing.  At a completed run commit_to_parents[c] is the list of c's
\* distinct parents in the order of their first parent lines, and a commit
\* without parent lines is no key of commit_to_parents.
C15_CommitFields ==
  \A c \in DOMAIN cache : cache[c].kind = "commit" =>
    LET trees == Values(Text(c), "tree")
        parents == Values(Text(c), "parent")
    IN /\ DOMAIN cache[c] = {"kind", "hash", "tree", "parents"}
       /\ cache[c].hash = c
       /\ cache[c].tree = IF trees = <<>> THEN None ELSE trees[Len(trees)]
       /\ cache[c].parents = parents
       /\ Succeeded =>
            IF parents = <<>> THEN c \notin DOMAIN commit_to_parents
            ELSE /\ c \in DOMAIN commit_to_parents
                 /\ commit_to_parents[c] = Distinct(parents)
\* A completed run over a commit whose parent lines name a later commit
\* before an earlier one and one commit twice, and over a root commit.
C15_Witness ==
  /\ Succeeded
  /\ \E c \in DOMAIN commit_to_parents :
       /\ Len(cache[c].parents) = 3
       /\ Len(commit_to_parents[c]) = 2
       /\ Rank(CommitSeq, commit_to_parents[c][1]) > Rank(CommitSeq, commit_to_parents[c][2])
  /\ \E c \in DOMAIN cache : cache[c].kind = "commit" /\ cache[c].parents = <<>>

\* The tree of commit c and all trees below it are in the cache, their blob
\* entries in the blob table, their edges in tree_to_trees and tree_to_blobs,
\* and commit_to_tree[c] is the hash of c's tree line.
EagerDone(c) ==
  LET root == commit_to_tree[c]
      trees == {root} \cup Below_(root)
  IN /\ root = TreeOf(c)
     /\ trees \subseteq DOMAIN cache
     /\ \A t \in trees :
          /\ BlobsOf(t) \subseteq DOMAIN blobs
          /\ \A u \in SubtreesOf(t) : <<t, u>> \in Edges(tree_to_trees)
          /\ \A b \in BlobsOf(t) : <<t, b>> \in Edges(tree_to_blobs)
\* get_commit is still at work on the cached commit c: its frame waits for
\* get_tree and only get_tree frames are above it.
Resolving(c) ==
  \E i \in DOMAIN stack :
    /\ stack[i].fn = "get_commit"
    /\ stack[i].pc = "tree"
    /\ stack[i].hash = c
    /\ \A j \in DOMAIN stack : j > i => stack[j].fn = "get_tree"
\* C16: get_commit returns a commit only with commit_to_tree set and the whole
\* tree below it resolved and recorded, and until then nothing else happens:
\* a commit whose parent loop has begun or that has a parent edge has all
\* that done, and a cached commit that has not is the one get_commit is
\* resolving trees for.
C16_EagerTrees ==
  /\ \A c \in DOMAIN commit_to_tree : EagerDone(c)
  /\ DOMAIN commit_to_parents \subseteq DOMAIN commit_to_tree
  /\ \A i \in DOMAIN stack :
        (stack[i].fn = "traverse_history" /\ stack[i].pc = "loop") =>
          stack[i].commit_hash \in DOMAIN commit_to_tree
  /\ \A r \in returned : r[2].kind = "commit" => r[1] \in DOMAIN commit_to_tree
  /\ \A c \in DOMAIN cache :
        (cache[c].kind = "commit" /\ c \notin DOMAIN commit_to_tree /\ status = "running")
          => Resolving(c)
\* get_commit has just returned a commit with a parent to its walk: no parent
\* edge of it is recorded yet, and its tree holds a subtree with a blob.
C16_Witness ==
  /\ Running("traverse_history", "loop")
  /\ Top.i = 1
  /\ Top.parents # <<>>
  /\ Top.commit_hash \notin DOMAIN commit_to_parents
  /\ \E u \in Below_(commit_to_tree[Top.commit_hash]) : BlobsOf(u) # {}
  /\ \A p \in Range(Top.parents) : p \notin DOMAIN cache

\* The tree of the cached commit c was asked for and is not in the store.
TreeMissing(c) ==
  /\ cache[c].tree \in DOMAIN store
  /\ ~store[cache[c].tree].found
\* C17: parse_commit makes a Commit of a record without a tree line, its tree
\* None; the failure comes in get_commit's call of get_tree, as the very next
\* thing the run does, with the object-not-found error, and ends the run; a
\* tree line that names a hash the store does not hold ends it the same way.
\* The failed run has no commit_to_tree entry for the commit, and no run
\* completes over such a commit.
C17_MissingTreeFatal ==
  \A c \in DOMAIN cache : cache[c].kind = "commit" =>
    /\ cache[c].tree = TreeOf(c)
    /\ (cache[c].tree = None /\ status = "running") =>
          /\ Resolving(c)
          /\ Top = GetTreeFrame(None, "/")
    /\ (cache[c].tree = None \/ TreeMissing(c)) =>
          /\ c \notin DOMAIN commit_to_tree
          /\ ~Succeeded
    /\ TreeMissing(c) => status = "failed" /\ error = "ObjectNotFound"
\* A run has failed on a commit without a tree line, reached as a parent of
\* a commit that was resolved with its tree.
C17_Witness ==
  /\ status = "failed"
  /\ error = "ObjectNotFound"
  /\ commit_to_tree # EmptyMap
  /\ \E c \in DOMAIN cache :
       /\ cache[c].kind = "commit"
       /\ cache[c].tree = None
       /\ TreeMissing(c)
       /\ fetches[None] = 1

\* C18: at a completed run every hash that is a key or a value of
\* commit_to_parents, commit_to_tree or tree_to_trees, a value of
\* branch_to_commit or a key of tree_to_blobs is in the cache, and every value
\* of tree_to_blobs is in the blob table; generate_graph then finds every tree
\* it asks get_tree for in the cache and every blob in the blob table: it
\* renders in one step that fetches nothing and changes nothing, never calls
\* into a fetch and never fails on a missing key.
C18_ReferentialClosure ==
  /\ [](Succeeded =>
          /\ DOMAIN commit_to_parents \subseteq DOMAIN cache
          /\ \A c \in DOMAIN commit_to_parents :
                Range(commit_to_parents[c]) \subseteq DOMAIN cache
          /\ DOMAIN commit_to_tree \cup Range(commit_to_tree) \subseteq DOMAIN cache
          /\ Range(branch_to_commit) \subseteq DOMAIN cache
          /\ TreeLookups \subseteq DOMAIN cache
          /\ BlobLookups \subseteq DOMAIN blobs)
  /\ [](error # "KeyError" /\ \A i \in DOMAIN stack : stack[i].fn # "generate_graph")
  /\ [][status = "parsed" => /\ status' = "rendered"
                             /\ UNCHANGED <<env, repo, fetches, error>>]_vars
\* A run was rendered whose indices name two commits, two trees and a blob,
\* and two branches.
C18_Witness ==
  /\ status = "rendered"
  /\ Cardinality(DOMAIN branch_to_commit) = 2
  /\ commit_to_parents # EmptyMap
  /\ tree_to_trees # EmptyMap
  /\ tree_to_blobs # EmptyMap
  /\ Cardinality(DOMAIN commit_to_tree) > 1
====
